---- MODULE Spec2Model ----
(***************************************************************************)
(* Model of the three batch scripts under tools/:                          *)
(*   clean_extrusions.py      (row filter / normalizer, CSV then TXT)      *)
(*   fill_3050_prices.py      (price backfill, -1000 price times 3.05)     *)
(*   update_xlsx_from_csv.py  (spreadsheet sync with per-mm rate)          *)
(*                                                                         *)
(* Representation.  A file is the sequence of its lines; a line is the     *)
(* sequence of its delimiter-separated fields; a field (a Python str       *)
(* without the delimiter) is the sequence of its hyphen-separated tokens,  *)
(* so "X-1000" is <<"X", "1000">> and the empty string is <<"">>.          *)
(* str.split('-') therefore reads the tokens and '-'.join(...) writes      *)
(* them; whitespace stripping, substring tests, suffix tests and           *)
(* replacement are computed on the tokens.  Money is held in cents.        *)
(***************************************************************************)
EXTENDS Integers, Sequences, FiniteSets, TLC

VARIABLES mode, pc, csvFile, txtFile, xlsxFile, stdout, writes, csvIn, txtIn, runs

vars == <<mode, pc, csvFile, txtFile, xlsxFile, stdout, writes, csvIn, txtIn, runs>>

\* Largest number of lines of an input file.
MaxRows == 3
\* Largest number of times the filter script is invoked in a row.
MaxRuns == 2

(* ------------------------------ strings ------------------------------ *)

S(t) == <<t>>

Empty == <<"">>

Last(s) == s[Len(s)]

Front(s) == SubSeq(s, 1, Len(s) - 1)

\* str.lstrip / str.rstrip on one token (the tokens that carry white space).
lstrip(tok) == CASE tok = " Y" -> "Y" [] tok = " " -> "" [] OTHER -> tok

rstrip(tok) == CASE tok = "1500 " -> "1500" [] tok = " " -> "" [] OTHER -> tok

\* str.strip() of a field: the hyphen stops the stripping at both ends.
strip(s) == LET l == <<lstrip(s[1])>> \o Tail(s)
            IN  Front(l) \o <<rstrip(Last(l))>>

\* line.strip() of a comma-separated line: the comma stops the stripping.
strip_line(line) ==
    IF Len(line) = 1 THEN <<strip(line[1])>>
    ELSE LET l == <<(<<lstrip(line[1][1])>> \o Tail(line[1]))>> \o Tail(line)
             z == Last(l)
         IN  Front(l) \o <<(Front(z) \o <<rstrip(Last(z))>>)>>

\* 'TAP1' in sku or 'TAP2' in sku: the marker has no hyphen, so it lies in a token.
TapTokens == {"TAP1", "TAP2"}

\* Mutant: only the second marker is looked for.
has_tap_only_tap2(sku) == \E i \in 1..Len(sku) : sku[i] = "TAP2"

has_tap(sku) == \E i \in 1..Len(sku) : sku[i] \in TapTokens

\* Python's str ordering (code points) of the descriptions and SKUs of the
\* input lines and of the placeholder rows made from them.
CodePointOrder ==
    << <<" Y", "1500">>, <<" Y", "1500 ">>, <<"", "3050">>, <<"1000">>,
       <<"Alpha">>, <<"Beta">>, <<"Gamma">>,
       <<"X", "1000">>, <<"X", "3050">>, <<"X", "TAP1", "1000">>, <<"X", "TAP1", "3050">>,
       <<"Y", "3000">>, <<"Y", "3050">>, <<"Y", "500">> >>

Rank(s) == CHOOSE i \in 1..Len(CodePointOrder) : CodePointOrder[i] = s

StrLess(a, b) == Rank(a) < Rank(b)

(* ------------------------- clean_extrusions.py ----------------------- *)

ALLOWED == {"500", "1000", "1500", "3050"}

BlankLine == <<Empty>>

\* text.splitlines() filtered by l.strip(), comma-separated file.
csv_lines(file) == SelectSeq(file, LAMBDA l : strip_line(l) # BlankLine)

\* text.splitlines() filtered by l.strip(), tab-separated file: the tab is white space.
txt_lines(file) ==
    SelectSeq(file, LAMBDA l : \E i \in 1..Len(l) : strip(l[i]) # Empty)

parse_line_csv(line) == strip_line(line)

parse_line_txt(line) == line

make_key_from_sku(sku) == IF Len(sku) = 1 THEN Empty ELSE Front(sku)

\* One iteration of the filter loop; st = [kept, has3050, first].
filter_step(parts, st) ==
    IF Len(parts) < 3 THEN st
    ELSE LET sku  == strip(parts[3])
             last == Last(sku)
             base == make_key_from_sku(sku)
         IN  IF has_tap(sku) THEN st
             ELSE IF last \notin ALLOWED THEN st
             ELSE [kept    |-> Append(st.kept, parts),
                   has3050 |-> IF last = "3050" THEN st.has3050 \cup {base}
                               ELSE st.has3050,
                   first   |-> IF \E j \in 1..Len(st.first) : st.first[j][1] = base
                               THEN st.first
                               ELSE Append(st.first, <<base, parts>>)]

RECURSIVE filter_loop(_, _)
filter_loop(rows, st) ==
    IF rows = <<>> THEN st ELSE filter_loop(Tail(rows), filter_step(Head(rows), st))

RECURSIVE pad(_, _)
pad(row, n) == IF Len(row) >= n THEN row ELSE pad(Append(row, Empty), n)

\* The placeholder row of a base, built from the first kept row of the base.
new_3050_row(base, first_parts) ==
    LET padded == pad(first_parts, 7)
    IN  [i \in 1..Len(padded) |->
            IF i = 3 THEN base \o <<"3050">>
            ELSE IF i \in 4..7 THEN Empty
            ELSE padded[i]]

\* Mutant: a placeholder is appended for every base, also one that has a "3050" row.
RECURSIVE add_3050_always(_, _, _)
add_3050_always(first, has3050, kept) ==
    IF first = <<>> THEN kept
    ELSE add_3050_always(Tail(first), has3050,
             Append(kept, new_3050_row(Head(first)[1], Head(first)[2])))

RECURSIVE add_missing_3050(_, _, _)
add_missing_3050(first, has3050, kept) ==
    IF first = <<>> THEN kept
    ELSE LET base == Head(first)[1]
             row  == Head(first)[2]
         IN  add_missing_3050(Tail(first), has3050,
                 IF base \in has3050 THEN kept
                 ELSE Append(kept, new_3050_row(base, row)))

\* key=lambda p: (p[1], p[2])
key_less(p, q) == StrLess(p[2], q[2]) \/ (p[2] = q[2] /\ StrLess(p[3], q[3]))

\* Mutant: an unstable sort, p goes in front of the rows with an equal key.
RECURSIVE insert_unstable(_, _)
insert_unstable(sorted, p) ==
    IF sorted = <<>> THEN <<p>>
    ELSE IF ~key_less(Head(sorted), p) THEN <<p>> \o sorted
    ELSE <<Head(sorted)>> \o insert_unstable(Tail(sorted), p)

\* Insert p behind every row that does not sort after it (list.sort is stable).
RECURSIVE insert_sorted(_, _)
insert_sorted(sorted, p) ==
    IF sorted = <<>> THEN <<p>>
    ELSE IF key_less(p, Head(sorted)) THEN <<p>> \o sorted
    ELSE <<Head(sorted)>> \o insert_sorted(Tail(sorted), p)

RECURSIVE sort_rows(_, _)
sort_rows(rows, acc) ==
    IF rows = <<>> THEN acc ELSE sort_rows(Tail(rows), insert_sorted(acc, Head(rows)))

\* '\n'.join(out_lines) + '\n': no row at all still writes one empty line.
write_lines(rows) == IF rows = <<>> THEN <<BlankLine>> ELSE rows

parse_all(lines, csv) ==
    [i \in 1..Len(lines) |-> IF csv THEN parse_line_csv(lines[i]) ELSE parse_line_txt(lines[i])]

\* The rows clean_csv (csv = TRUE) or clean_txt (csv = FALSE) computes from a file.
clean_rows(file, csv) ==
    LET lines == IF csv THEN csv_lines(file) ELSE txt_lines(file)
        st    == filter_loop(parse_all(lines, csv),
                             [kept |-> <<>>, has3050 |-> {}, first |-> <<>>])
    IN  sort_rows(add_missing_3050(st.first, st.has3050, st.kept), <<>>)

\* Input lines of the filter pass.
CleanLines ==
    { <<S("1"), S("Beta"), <<"X", "1000">>, S("a"), S("b"), S("100.00"), S("50.00")>>,
      <<S("2"), S("Alpha"), <<"X", "3050">>, Empty, Empty, Empty, Empty>>,
      <<S("3"), S("Alpha"), <<"X", "3050">>, S("a"), S("b"), S("250.00"), Empty>>,
      <<S("4"), S("Alpha"), <<"X", "TAP1", "1000">> >>,
      <<S("5"), S("Beta"), <<"Y", "3000">> >>,
      <<S("6"), S("Alpha"), <<"Y", "500">>, S("a"), S("b"), S("10.00"), S("5.00"), S("extra")>>,
      <<S("7"), S("Gamma")>>,
      <<S("8"), S("Alpha"), <<" Y", "1500 ">> >>,
      <<S("9"), S("Beta"), <<"1000">> >>,
      BlankLine }

Tables(lines) == UNION { [1..n -> lines] : n \in 0..MaxRows }

(* -------------------------- fill_3050_prices.py ---------------------- *)

\* float(s) of the numerals that occur, in cents; any other text raises.
Cents == [t \in {"5.00", "10.00", "50.00", "90", "100.00", "120", "150", "250.00",
                 "305.00", "366.00", "457.50"} |->
            CASE t = "5.00" -> 500 [] t = "10.00" -> 1000 [] t = "50.00" -> 5000
              [] t = "90" -> 9000 [] t = "100.00" -> 10000 [] t = "120" -> 12000 [] t = "150" -> 15000
              [] t = "250.00" -> 25000 [] t = "305.00" -> 30500
              [] t = "366.00" -> 36600 [] t = "457.50" -> 45750]

is_numeric(s) == Len(s) = 1 /\ s[1] \in DOMAIN Cents

\* format(d, "f") of a Decimal with two places.
format2(c) ==
    <<ToString(c \div 100) \o "." \o ToString((c % 100) \div 10) \o ToString(c % 10)>>

\* round2(base * 3.05): ROUND_HALF_UP to the cent; base is in cents.
round2_times_305(c) == format2((c * 305 + 50) \div 100)

\* csv.reader: an empty line is the empty row.
csv_reader(file) == [i \in 1..Len(file) |-> IF file[i] = BlankLine THEN <<>> ELSE file[i]]

\* csv.writer.writerows: the empty row is an empty line.
csv_writer(rows) == [i \in 1..Len(rows) |-> IF rows[i] = <<>> THEN BlankLine ELSE rows[i]]

\* sku.endswith("-1000"), sku.endswith("-3050")
endswith(sku, tok) == Len(sku) >= 2 /\ Last(sku) = tok

\* row[5].strip() if len(row) > 5 else ""
price_of(row) == IF Len(row) > 5 THEN strip(row[6]) ELSE Empty

RECURSIVE price_map_loop(_, _)
price_map_loop(rows, m) ==
    IF rows = <<>> THEN m
    ELSE LET row == Head(rows)
             sku == strip(row[3])
         IN  price_map_loop(Tail(rows),
                 IF Len(row) >= 3 /\ endswith(sku, "1000") /\ is_numeric(price_of(row))
                 THEN [k \in DOMAIN m \cup {sku} |->
                          IF k = sku THEN Cents[price_of(row)[1]] ELSE m[k]]
                 ELSE m)

\* sku.replace("-3050", "-1000"): every token "3050" behind a hyphen is
\* replaced, not only the trailing one (no other token begins with "3050").
replace_3050(sku) ==
    [i \in 1..Len(sku) |-> IF i >= 2 /\ sku[i] = "3050" THEN "1000" ELSE sku[i]]

\* One iteration of the fill loop over reader[i]; st = [rows, updated, missing].
fill_step(i, price_map, st) ==
    LET row == st.rows[i]
        sku == strip(row[3])
    IN  IF Len(row) < 3 THEN st
        ELSE IF ~endswith(sku, "3050") THEN st
        ELSE IF is_numeric(price_of(row)) THEN st
        ELSE LET sku1000 == replace_3050(sku)
             IN  IF sku1000 \in DOMAIN price_map
                 THEN [st EXCEPT !.rows[i] =
                                    [pad(row, 6) EXCEPT ![6] = round2_times_305(price_map[sku1000])],
                                 !.updated = st.updated + 1]
                 ELSE [st EXCEPT !.missing = Append(st.missing, sku)]

RECURSIVE fill_loop(_, _, _)
fill_loop(i, price_map, st) ==
    IF i > Len(st.rows) THEN st ELSE fill_loop(i + 1, price_map, fill_step(i, price_map, st))

\* Mutant: the file is rewritten whether or not a row was updated.
should_write_always(updated) == TRUE

\* if updated > 0:
should_write(updated) == updated > 0

\* Input lines of the price backfill.
FillLines ==
    { <<S("1"), S("Rail"), <<"X", "1000">>, S("a"), S("b"), S("100.00"), S("50.00")>>,
      <<S("2"), S("Rail"), <<"X", "3050">>, Empty, Empty, Empty, Empty>>,
      <<S("3"), S("Rail"), <<"X", "3050">>, S("a"), S("b"), S("250.00"), Empty>>,
      <<S("4"), S("Rail"), <<"X", "3050", "1000">>, S("a"), S("b"), S("120"), Empty>>,
      <<S("5"), S("Rail"), <<"X", "3050", "3050">> >>,
      <<S("6"), S("Rail"), <<"X", "1000">>, S("a"), S("b"), S("n/a"), Empty>>,
      <<S("7"), S("Rail")>>,
      <<S("8"), S("Rail"), <<"X", "1000", "1000">>, S("a"), S("b"), S("150"), Empty>>,
      BlankLine }

InitFill ==
    /\ mode = "fill"
    /\ csvFile \in Tables(FillLines)
    /\ txtFile = <<>>
    /\ xlsxFile = <<>>

\* The whole script: read, build price_map, fill, write if updated, report.
Fill ==
    /\ mode = "fill" /\ pc = "start"
    /\ LET reader == csv_reader(csvFile)
           st     == fill_loop(1, price_map_loop(reader, <<>>),
                               [rows |-> reader, updated |-> 0, missing |-> <<>>])
       IN  /\ IF should_write(st.updated)
              THEN csvFile' = csv_writer(st.rows) /\ writes' = Append(writes, "csv")
              ELSE UNCHANGED <<csvFile, writes>>
           /\ stdout' = stdout \o << <<"Updated", st.updated>> >>
                               \o (IF st.missing # <<>>
                                   THEN << <<"Could not find", st.missing>> >>
                                   ELSE <<>>)
    /\ pc' = "done"
    /\ UNCHANGED <<mode, txtFile, xlsxFile, csvIn, txtIn, runs>>

(* ------------------------ update_xlsx_from_csv.py -------------------- *)

\* Mutant: the empty rows are not skipped.
read_all_rows(file) == csv_reader(file)

\* read_csv_rows(): the rows of csv.reader without the empty ones.
read_csv_rows(file) == SelectSeq(csv_reader(file), LAMBDA r : r # <<>>)

sku_base(sku) == IF Len(sku) <= 1 THEN sku ELSE Front(sku)

length_token(sku) == Last(sku)

\* None, and to_float(s): <<the amount in cents>>, or None.
None == <<>>

to_float(s) == IF is_numeric(s) THEN <<Cents[s[1]]>> ELSE None

\* d[k] = v
put(d, k, v) == [x \in DOMAIN d \cup {k} |-> IF x = k THEN v ELSE d[x]]

\* The rates a row of the given length token contributes; a rate price / 1000.0
\* is held as the pair [amount, per], rates = [price_per_mm, cost_per_mm].
set_rates(r, base, per, rates) ==
    LET price == IF Len(r) > 5 THEN to_float(r[6]) ELSE None
        cost  == IF Len(r) > 6 THEN to_float(r[7]) ELSE None
    IN  [price_per_mm |-> IF price # None
                          THEN put(rates.price_per_mm, base, [amount |-> price[1], per |-> per])
                          ELSE rates.price_per_mm,
         cost_per_mm  |-> IF cost # None
                          THEN put(rates.cost_per_mm, base, [amount |-> cost[1], per |-> per])
                          ELSE rates.cost_per_mm]

\* One iteration of the first loop: the rates of the "-1000" rows.
rate_step(r, rates) ==
    IF Len(r) < 3 THEN rates
    ELSE LET sku == strip(r[3])
         IN  IF length_token(sku) = "1000" THEN set_rates(r, sku_base(sku), 1000, rates)
             ELSE rates

\* Mutant: the "-1500" row is used also for a base that has a price rate.
fallback_step_unguarded(r, rates) ==
    IF Len(r) < 3 THEN rates
    ELSE LET sku == strip(r[3])
         IN  IF length_token(sku) = "1500" THEN set_rates(r, sku_base(sku), 1500, rates)
             ELSE rates

\* One iteration of the second loop: the "-1500" rows of the bases that have
\* no price rate yet.
fallback_step(r, rates) ==
    IF Len(r) < 3 THEN rates
    ELSE LET sku == strip(r[3])
         IN  IF sku_base(sku) \in DOMAIN rates.price_per_mm THEN rates
             ELSE IF length_token(sku) = "1500" THEN set_rates(r, sku_base(sku), 1500, rates)
             ELSE rates

RECURSIVE rate_loop(_, _)
rate_loop(rows, rates) ==
    IF rows = <<>> THEN rates ELSE rate_loop(Tail(rows), rate_step(Head(rows), rates))

RECURSIVE fallback_loop(_, _)
fallback_loop(rows, rates) ==
    IF rows = <<>> THEN rates ELSE fallback_loop(Tail(rows), fallback_step(Head(rows), rates))

\* f"{round(rate * 3050, 2):.2f}": to the nearest cent, a tie to the even cent.
round_rate_3050(rate) ==
    LET n == rate.amount * 3050
        q == n \div rate.per
        m == 2 * (n % rate.per)
    IN  format2(IF m > rate.per \/ (m = rate.per /\ q % 2 = 1) THEN q + 1 ELSE q)

\* One iteration of the third loop: pad, and fill a "-3050" row.
fill_row(r0, rates) ==
    LET r     == pad(r0, 7)
        sku   == strip(r[3])
        token == IF sku # Empty THEN length_token(sku) ELSE ""
        base  == IF sku # Empty THEN sku_base(sku) ELSE Empty
    IN  IF token = "3050"
        THEN [r EXCEPT ![6] = IF to_float(r[6]) = None /\ base \in DOMAIN rates.price_per_mm
                              THEN round_rate_3050(rates.price_per_mm[base]) ELSE r[6],
                       ![7] = IF to_float(r[7]) = None /\ base \in DOMAIN rates.cost_per_mm
                              THEN round_rate_3050(rates.cost_per_mm[base]) ELSE r[7]]
        ELSE r

\* The rows main() appends to the sheet.
updated_rows(file) ==
    LET rows  == read_csv_rows(file)
        rates == fallback_loop(rows,
                     rate_loop(rows, [price_per_mm |-> <<>>, cost_per_mm |-> <<>>]))
    IN  [i \in 1..Len(rows) |-> fill_row(rows[i], rates)]

\* Input lines of the spreadsheet sync.
SyncLines ==
    { <<S("1"), S("Rail"), <<"X", "1000">>, S("a"), S("b"), S("120"), S("50.00")>>,
      <<S("2"), S("Rail"), <<"X", "1000">>, S("a"), S("b"), Empty, S("50.00")>>,
      <<S("3"), S("Rail"), <<"X", "1000">>, S("a"), S("b"), S("120"), Empty>>,
      <<S("4"), S("Rail"), <<"X", "1500">>, S("a"), S("b"), S("150"), S("90")>>,
      <<S("5"), S("Rail"), <<"X", "3050">>, Empty, Empty, Empty, Empty>>,
      <<S("6"), S("Rail"), <<"X", "3050">>, S("a"), S("b"), S("250.00"), S("n/a")>>,
      <<S("7"), S("Rail")>>,
      <<S("9"), S("Rail"), <<"X", "3050">> >>,
      BlankLine }

InitSync ==
    /\ mode = "sync"
    /\ csvFile \in Tables(SyncLines)
    /\ txtFile = <<>>
    /\ xlsxFile = <<>>

\* main(): read the CSV, derive the rates, fill, save the workbook, report.
Sync ==
    /\ mode = "sync" /\ pc = "start"
    /\ xlsxFile' = updated_rows(csvFile)
    /\ writes' = Append(writes, "xlsx")
    /\ stdout' = Append(stdout, <<"Wrote updated XLSX", Len(updated_rows(csvFile))>>)
    /\ pc' = "done"
    /\ UNCHANGED <<mode, csvFile, txtFile, csvIn, txtIn, runs>>

(* ------------------------------ the runs ------------------------------ *)

InitClean ==
    /\ mode = "clean"
    /\ csvFile \in Tables(CleanLines)
    /\ txtFile = csvFile
    /\ xlsxFile = <<>>

Init ==
    /\ (InitClean \/ InitFill \/ InitSync)
    /\ pc = "start"
    /\ stdout = <<>>
    /\ writes = <<>>
    /\ csvIn = csvFile
    /\ txtIn = txtFile
    /\ runs = 1

\* clean_csv(): read, filter, add placeholders, sort, overwrite, report.
CleanCsv ==
    /\ mode = "clean" /\ pc = "start"
    /\ LET kept == clean_rows(csvFile, TRUE)
       IN  /\ csvFile' = write_lines(kept)
           /\ stdout' = Append(stdout, <<"Wrote cleaned CSV", Len(kept)>>)
    /\ writes' = Append(writes, "csv")
    /\ pc' = "csv_done"
    /\ UNCHANGED <<mode, txtFile, xlsxFile, csvIn, txtIn, runs>>

\* clean_txt(): the same pass over the tab-separated sibling, then print('Done').
CleanTxt ==
    /\ mode = "clean" /\ pc = "csv_done"
    /\ LET kept == clean_rows(txtFile, FALSE)
       IN  /\ txtFile' = write_lines(kept)
           /\ stdout' = stdout \o << <<"Wrote cleaned TXT", Len(kept)>>, <<"Done", 0>> >>
    /\ writes' = Append(writes, "txt")
    /\ pc' = "done"
    /\ UNCHANGED <<mode, csvFile, xlsxFile, csvIn, txtIn, runs>>

\* Mutant: the script runs clean_txt() first, and the CSV read fails after it.
CleanCsvReadFailsAfterTxt ==
    /\ mode = "clean" /\ pc = "start"
    /\ txtFile' = write_lines(clean_rows(txtFile, FALSE))
    /\ writes' = Append(writes, "txt")
    /\ pc' = "csv_read_failed"
    /\ UNCHANGED <<mode, csvFile, xlsxFile, stdout, csvIn, txtIn, runs>>

\* CSV_FILE.read_text raises (file missing or unreadable): nothing was written.
CleanCsvReadFails ==
    /\ mode = "clean" /\ pc = "start"
    /\ pc' = "csv_read_failed"
    /\ UNCHANGED <<mode, csvFile, txtFile, xlsxFile, stdout, writes, csvIn, txtIn, runs>>

\* TXT_FILE.read_text raises after clean_csv() has returned.
CleanTxtReadFails ==
    /\ mode = "clean" /\ pc = "csv_done"
    /\ pc' = "txt_read_failed"
    /\ UNCHANGED <<mode, csvFile, txtFile, xlsxFile, stdout, writes, csvIn, txtIn, runs>>

\* The script is invoked again on the files it left behind.
RunAgain ==
    /\ mode = "clean" /\ pc = "done" /\ runs < MaxRuns
    /\ pc' = "start"
    /\ runs' = runs + 1
    /\ csvIn' = csvFile
    /\ txtIn' = txtFile
    /\ stdout' = <<>>
    /\ writes' = <<>>
    /\ UNCHANGED <<mode, csvFile, txtFile, xlsxFile>>

Next ==
    \/ CleanCsv
    \/ CleanTxt
    \/ CleanCsvReadFails
    \/ CleanTxtReadFails
    \/ RunAgain
    \/ Fill
    \/ Sync

Spec == Init /\ [][Next]_vars

(* --------------------- properties of the filter pass ------------------ *)

Range(s) == { s[i] : i \in DOMAIN s }

\* Rows of a written file: an output without rows is the single empty line.
OutRows(file) == IF file = <<BlankLine>> THEN <<>> ELSE file

\* The SKU of a row as every script reads it: parts[2].strip().
SkuOf(row) == strip(row[3])

BaseOf(row) == make_key_from_sku(SkuOf(row))

TokenOf(row) == Last(SkuOf(row))

\* The filter passes that have written their file in this invocation, each
\* with the rows it parsed from its input and the rows it wrote.
FilterPasses ==
    (IF mode = "clean" /\ "csv" \in Range(writes)
     THEN {[in |-> parse_all(csv_lines(csvIn), TRUE), out |-> OutRows(csvFile)]}
     ELSE {})
    \cup
    (IF mode = "clean" /\ "txt" \in Range(writes)
     THEN {[in |-> parse_all(txt_lines(txtIn), FALSE), out |-> OutRows(txtFile)]}
     ELSE {})

\* Positions of the rows of base b that carry the length token "3050".
Rows3050(rows, b) ==
    { j \in DOMAIN rows : Len(rows[j]) >= 3 /\ BaseOf(rows[j]) = b /\ TokenOf(rows[j]) = "3050" }

\* Positions of the input rows that pass the three filters.
Surviving(rows) ==
    { j \in DOMAIN rows : /\ Len(rows[j]) >= 3
                          /\ \A k \in DOMAIN SkuOf(rows[j]) : SkuOf(rows[j])[k] \notin {"TAP1", "TAP2"}
                          /\ TokenOf(rows[j]) \in {"500", "1000", "1500", "3050"} }

\* C1 as stated: every base of the output has exactly one row with length
\* token "3050", whatever the input held.
C1_ExactlyOne3050 ==
    \A p \in FilterPasses : \A i \in DOMAIN p.out :
        Cardinality(Rows3050(p.out, BaseOf(p.out[i]))) = 1

\* C1 amended: every base of the output has at least one row with length
\* token "3050": the "-3050" rows of that base which the input held and the
\* filters kept, all of them, or the one placeholder when there was none.
C1_AtLeastOne3050 ==
    \A p \in FilterPasses : \A i \in DOMAIN p.out :
        LET b   == BaseOf(p.out[i])
            inN == Cardinality(Rows3050(p.in, b) \cap Surviving(p.in))
        IN  Cardinality(Rows3050(p.out, b)) = IF inN = 0 THEN 1 ELSE inN

\* A run whose input held two "-3050" rows of one base and none of another.
C1_Witness ==
    /\ pc = "done"
    /\ \E p \in FilterPasses :
          /\ \E i \in DOMAIN p.out : Rows3050(p.in, BaseOf(p.out[i])) = {}
          /\ \E i \in DOMAIN p.out : Cardinality(Rows3050(p.in, BaseOf(p.out[i]))) = 2

\* C2: no output row has a SKU with the marker "TAP1" or "TAP2", and none has
\* a SKU whose trailing token is outside {500, 1000, 1500, 3050}; kept rows
\* and placeholder rows alike.
C2_NoDisallowedRow ==
    \A p \in FilterPasses : \A i \in DOMAIN p.out :
        /\ Len(p.out[i]) >= 3
        /\ \A k \in DOMAIN SkuOf(p.out[i]) : SkuOf(p.out[i])[k] \notin {"TAP1", "TAP2"}
        /\ TokenOf(p.out[i]) \in {"500", "1000", "1500", "3050"}

\* A pass that dropped a marker row and a disallowed length and wrote a
\* placeholder beside a kept row.
C2_Witness ==
    /\ pc = "done"
    /\ \E p \in FilterPasses :
          /\ \E j \in DOMAIN p.in : Len(p.in[j]) >= 3 /\ "TAP1" \in Range(SkuOf(p.in[j]))
          /\ \E j \in DOMAIN p.in : Len(p.in[j]) >= 3 /\ TokenOf(p.in[j]) = "3000"
          /\ Len(p.out) = 2

\* C3: the filter pass is idempotent: a second invocation leaves each file
\* exactly as the first wrote it (same rows, same order).
C3_Idempotent ==
    (mode = "clean" /\ runs >= 2) =>
        /\ ("csv" \in Range(writes) => csvFile = csvIn)
        /\ ("txt" \in Range(writes) => txtFile = txtIn)

\* The second invocation has rewritten both files, which hold a placeholder
\* row and two rows with equal sort keys.
C3_Witness ==
    /\ mode = "clean" /\ runs = 2 /\ pc = "done"
    /\ \E i \in DOMAIN csvFile :
          csvFile[i] = <<S("8"), S("Alpha"), <<"Y", "3050">>, Empty, Empty, Empty, Empty>>
    /\ \E i, j \in DOMAIN txtFile :
          /\ i < j /\ Len(txtFile[i]) >= 3 /\ Len(txtFile[j]) >= 3
          /\ txtFile[i][1] # txtFile[j][1]
          /\ txtFile[i][2] = txtFile[j][2] /\ txtFile[i][3] = txtFile[j][3]

\* The first input row of base b that passes the filters.
FirstSurviving(rows, b) ==
    rows[CHOOSE j \in Surviving(rows) :
            /\ BaseOf(rows[j]) = b
            /\ \A k \in Surviving(rows) : BaseOf(rows[k]) = b => j <= k]

\* C4 as stated: the placeholder of a base without "3050" row copies id and
\* description of the first surviving row of the base, has at least 7
\* columns, SKU base + "-3050", and every field behind the SKU empty.
C4_PlaceholderBlank ==
    \A p \in FilterPasses : \A i \in DOMAIN p.out :
        LET r == p.out[i]
            b == BaseOf(r)
        IN  (TokenOf(r) = "3050" /\ Rows3050(p.in, b) \cap Surviving(p.in) = {}) =>
                /\ Len(r) >= 7
                /\ r[1] = FirstSurviving(p.in, b)[1]
                /\ r[2] = FirstSurviving(p.in, b)[2]
                /\ r[3] = b \o <<"3050">>
                /\ \A k \in 4..Len(r) : r[k] = Empty

\* C10 as stated: when the pass aborts on a failed read, neither file has
\* been overwritten.
C10_NoWriteOnAbort ==
    pc \in {"csv_read_failed", "txt_read_failed"} => writes = <<>>

\* C10 amended: a failed read aborts the pass before the file being read is
\* overwritten: after a failed read of the CSV file nothing is written;
\* after a failed read of the TXT file the TXT file is as it was, and the CSV
\* file has already been overwritten by clean_csv.
C10_AbortKeepsFileBeingRead ==
    /\ pc = "csv_read_failed" => (writes = <<>> /\ csvFile = csvIn /\ txtFile = txtIn)
    /\ pc = "txt_read_failed" => (writes = <<"csv">> /\ txtFile = txtIn)

\* The TXT read failed after clean_csv changed the CSV file.
C10_Witness == pc = "txt_read_failed" /\ csvFile # csvIn /\ txtIn # <<>>

(* -------------------- properties of the price backfill ---------------- *)

FillDone == mode = "fill" /\ pc = "done"

\* The rows the backfill read and the rows the file holds after it.
FillIn == csv_reader(csvIn)

FillOut == csv_reader(csvFile)

\* The field at 0-based column c, "" when the row is shorter.
FieldAt(row, c) == IF Len(row) > c THEN row[c + 1] ELSE Empty

\* The numeric prices of the rows whose SKU is base + "-" + token.
PricesOf(rows, base, token) ==
    { Cents[strip(FieldAt(rows[j], 5))[1]] :
        j \in { k \in DOMAIN rows : /\ Len(rows[k]) >= 3
                                    /\ SkuOf(rows[k]) = base \o <<token>>
                                    /\ is_numeric(strip(FieldAt(rows[k], 5))) } }

\* p times 3.05, half-up to the cent, as text.
Scaled305(p) ==
    LET c == (p * 305 + 50) \div 100
    IN  <<ToString(c \div 100) \o "." \o ToString((c % 100) \div 10) \o ToString(c % 10)>>

\* C5 as stated: a "-3050" row without numeric price gets the price of the
\* "-1000" row of the same base (the SKU without its trailing "-3050" only)
\* times 3.05, half-up to 2 decimals; a "-3050" row with a numeric price keeps it.
C5_BackfillFromSameBase ==
    FillDone =>
        \A i \in DOMAIN FillIn :
            LET row == FillIn[i]
            IN  (Len(row) >= 3 /\ Len(SkuOf(row)) >= 2 /\ TokenOf(row) = "3050") =>
                    IF is_numeric(strip(FieldAt(row, 5)))
                    THEN FillOut[i] = row
                    ELSE LET ps == PricesOf(FillIn, Front(SkuOf(row)), "1000")
                         IN  ps # {} => \E p \in ps : FieldAt(FillOut[i], 5) = Scaled305(p)

\* C8: the backfill rewrites the file only if a row was updated: with no
\* updated row nothing is written and the file is unchanged; the summary
\* with the count of updated rows is printed in every run.
C8_WriteOnlyIfUpdated ==
    FillDone =>
        LET changed == { i \in DOMAIN FillIn : FillOut[i] # FillIn[i] }
        IN  /\ Len(stdout) >= 1
            /\ stdout[1] = <<"Updated", Cardinality(changed)>>
            /\ Len(csvFile) = Len(csvIn)
            /\ changed = {} => (writes = <<>> /\ csvFile = csvIn)
            /\ changed # {} => writes = <<"csv">>

\* A run that found a "-3050" row without price and no source for it: no
\* row updated, nothing written, the unresolved SKU reported.
C8_Witness ==
    /\ FillDone /\ writes = <<>> /\ csvFile = csvIn
    /\ stdout[1] = <<"Updated", 0>> /\ Len(stdout) = 2
    /\ \E i \in DOMAIN FillIn :
          /\ Len(FillIn[i]) >= 3 /\ endswith(SkuOf(FillIn[i]), "3050")
          /\ ~is_numeric(strip(FieldAt(FillIn[i], 5)))

(* ------------------- properties of the spreadsheet sync --------------- *)

SyncDone == mode = "sync" /\ pc = "done"

\* The non-empty rows of the input, in order.
SyncIn == SelectSeq(csvIn, LAMBDA l : l # BlankLine)

\* The numeric amounts at column c of the rows of the base with the token.
AmountsOf(rows, base, token, c) ==
    { Cents[FieldAt(rows[j], c)[1]] :
        j \in { k \in DOMAIN rows : /\ Len(rows[k]) >= 3
                                    /\ sku_base(SkuOf(rows[k])) = base
                                    /\ TokenOf(rows[k]) = token
                                    /\ is_numeric(FieldAt(rows[k], c)) } }

\* a / per * 3050 to the nearest cent, as text (no amount here is at a tie).
Scaled3050(a, per) ==
    LET c == (2 * a * 3050 + per) \div (2 * per)
    IN  <<ToString(c \div 100) \o "." \o ToString((c % 100) \div 10) \o ToString(c % 10)>>

\* The value the claims give column c of a "-3050" row that has none:
\* from a "-1000" row if one has an amount, else from a "-1500" row, else as it was.
FilledFrom(rows, i, c, out) ==
    LET base  == sku_base(SkuOf(rows[i]))
        a1000 == AmountsOf(rows, base, "1000", c)
        a1500 == AmountsOf(rows, base, "1500", c)
    IN  IF a1000 # {} THEN \E a \in a1000 : out = Scaled3050(a, 1000)
        ELSE IF a1500 # {} THEN \E a \in a1500 : out = Scaled3050(a, 1500)
        ELSE out = FieldAt(rows[i], c)

Is3050Without(rows, i, c) ==
    /\ Len(rows[i]) >= 3
    /\ TokenOf(rows[i]) = "3050"
    /\ ~is_numeric(FieldAt(rows[i], c))

\* C6: a "-3050" row without numeric price is written with the "-1000" price
\* of its base / 1000 x 3050, else with the "-1500" price / 1500 x 3050, else
\* as it was; the "-1000" row wins whatever the order of the rows.
C6_PriceRateFallback ==
    SyncDone =>
        /\ Len(xlsxFile) = Len(SyncIn)
        /\ \A i \in DOMAIN SyncIn :
              Is3050Without(SyncIn, i, 5) => FilledFrom(SyncIn, i, 5, xlsxFile[i][6])

\* A "-1500" row in front of a "-1000" row, both priced, and a "-3050" row filled.
C6_Witness ==
    /\ SyncDone
    /\ \E i, j, k \in DOMAIN SyncIn :
          /\ i < j
          /\ Len(SyncIn[i]) >= 3 /\ TokenOf(SyncIn[i]) = "1500" /\ is_numeric(FieldAt(SyncIn[i], 5))
          /\ Len(SyncIn[j]) >= 3 /\ TokenOf(SyncIn[j]) = "1000" /\ is_numeric(FieldAt(SyncIn[j], 5))
          /\ Is3050Without(SyncIn, k, 5)
          /\ xlsxFile[k][6] = <<"366.00">>

\* C9 as stated: the fallback is resolved for the cost on its own: the cost
\* of a "-3050" row without one comes from the "-1000" cost of its base if a
\* "-1000" row has one, else from the "-1500" cost, whatever the prices are.
C9_CostRateIndependent ==
    SyncDone =>
        \A i \in DOMAIN SyncIn :
            Is3050Without(SyncIn, i, 6) => FilledFrom(SyncIn, i, 6, xlsxFile[i][7])

(* ------------------------- rows with too few fields -------------------- *)

\* Every row a filter pass wrote has at least 3 fields and the id of an
\* input row that had at least 3 fields.
FilterOutputFromFullRows ==
    \A p \in FilterPasses : \A i \in DOMAIN p.out :
        /\ Len(p.out[i]) >= 3
        /\ \E j \in DOMAIN p.in : Len(p.in[j]) >= 3 /\ p.in[j][1] = p.out[i][1]

\* C7 as stated: no row with fewer than 3 fields reaches the output of the
\* filter pass or of the spreadsheet sync.
C7_NoShortRowAnywhere ==
    /\ FilterOutputFromFullRows
    /\ SyncDone => /\ Len(xlsxFile) <= Len(SyncIn)
                   /\ \A i \in DOMAIN xlsxFile :
                         \E j \in DOMAIN SyncIn : Len(SyncIn[j]) >= 3 /\ SyncIn[j][1] = xlsxFile[i][1]

\* C7 amended: no row with fewer than 3 fields reaches the output of the
\* filter pass; the spreadsheet sync drops the empty rows only and writes
\* every other input row, one with fewer than 3 fields too, padded to 7 columns.
C7_ShortRowsOnlyFiltered ==
    /\ FilterOutputFromFullRows
    /\ SyncDone => /\ Len(xlsxFile) = Len(SyncIn)
                   /\ \A i \in DOMAIN SyncIn :
                         /\ Len(xlsxFile[i]) = IF Len(SyncIn[i]) < 7 THEN 7 ELSE Len(SyncIn[i])
                         /\ \A k \in 1..Len(SyncIn[i]) :
                               k \notin {6, 7} => xlsxFile[i][k] = SyncIn[i][k]
                         /\ \A k \in (Len(SyncIn[i]) + 1)..5 : xlsxFile[i][k] = Empty

\* A sync that read an empty line and a row of 2 fields and wrote the latter.
C7_Witness ==
    /\ SyncDone
    /\ Len(csvIn) > Len(SyncIn)
    /\ \E i \in DOMAIN SyncIn : Len(SyncIn[i]) = 2 /\ Len(xlsxFile[i]) = 7

====
